---- MODULE Spec2Model ----
(***************************************************************************)
(* Beam-centre finding of bstrb/icf: the symmetric-mask builder, the wedge *)
(* radial profiler and the asymmetry metric of icf_src.py, and the frame   *)
(* schedulers that run the per-frame pipeline over an HDF5 image stack.    *)
(*                                                                         *)
(* Sub-pixel coordinates are fixed-point: a coordinate c is the integer    *)
(* c * Den.  Intensities are integers; a median is kept doubled so that    *)
(* the mean of two middle values stays an integer.                         *)
(***************************************************************************)
EXTENDS Integers, Sequences, FiniteSets, TLC

\* ------------------------------------------------------------------ bounds
Rows == 2          \* largest frame height of the pure-function harness
Cols == 3          \* largest frame width
Den == 8           \* sub-pixel units per pixel of a candidate centre
MaxVal == 1        \* largest pixel intensity
NRadBins == 2      \* n_rad_bins of the harness (the callers pass 100)
MaxSigned == 2     \* largest magnitude of a signed pixel intensity
RadSize == 3       \* frame height of the radial-symmetry harnesses
MaxStack == 1      \* largest number of masks stacked in a mask dataset

MaxImages == 3     \* largest n_images of a dataset
MaxInterval == 3   \* largest frame_interval
MaxChunk == 2      \* largest chunk_size
XMax == 2          \* region of interest [XMin, XMax) x [YMin, YMax)
YMax == 2

\* --------------------------------------------------------- program constants
NWedges == 4       \* n_wedges, as every caller passes it
SkipTol == 3       \* skip_tol of find_diffraction_center
MaxIter == 300     \* options={'maxiter': 300} of the Nelder-Mead call
XatolDen == 10     \* xatol = 1e-1 of find_diffraction_center, as 1 / XatolDen
XMin == 0          \* default xmin
YMin == 0          \* default ymin

VARIABLES
    rows, cols,    \* image.shape
    gmask,         \* global validity mask, flat index -> BOOLEAN
    cand,          \* candidate centre <<cx, cy>> in 1/Den pixels
    phase,         \* position of the harness
    symMask,       \* result of build_symmetric_mask_fast: set of flat indices
    image,         \* frame intensities, flat index -> Int
    nanPix,        \* the pixels of the frame whose intensity is NaN
    profiles,      \* wedge_profiles: wedge -> bin -> [nan, med2]
    metric,        \* result of center_asymmetry_metric: [inf, num, den]
    variant,       \* which scheduler runs
    n_images,      \* f['/entry/data/images'].shape[0]
    frame_interval,
    chunk_size,
    has_index,     \* '/entry/data/index' is in the file
    mask_ok,       \* mask.shape = frame shape
    frames,        \* the dataset: frame number -> what the pipeline finds in it
    pc,            \* "start", "running", "done" or "raised"
    work,          \* the work items handed to the pool, each a list of frames
    status,        \* per work item: "pending", "ok" or "failed"
    out,           \* per work item: what the worker returned
    gpos,          \* work items the controlling process has taken, in order
    folded,        \* work items folded in out of order (callback, imap_unordered)
    df,            \* the DataFrame of centres: frame number -> <<cx, cy>>
    results,       \* the list of collected records
    csv,           \* rows of the written CSV
    csv_written,   \* to_csv has run
    progress,      \* the progress bar's count
    opens,         \* h5py.File calls of the workers: [init, task]
    com,           \* result of center_of_mass_initial_guess
    objective,     \* the asymmetry metric of the frame at each candidate point
    x0,            \* initial_center of find_diffraction_center
    rpc,           \* position in find_diffraction_center
    init_metric,   \* the metric evaluated at the initial centre
    minimize_calls,\* calls of scipy.optimize.minimize
    iterations,    \* iterations of the simplex loop
    best,          \* the best vertex of the simplex
    evaluated,     \* the points the simplex loop has evaluated
    refined_center,\* the value find_diffraction_center returns
    use_mask,      \* the use-mask option of the front end
    mask_dataset,  \* f_mask['/mask']: [shape, data]
    loaded_mask,   \* the mask the front end hands to the scheduler: [shape, data]
    load_pc        \* position of the front end's mask loading

refVars == <<objective, x0, rpc, init_metric, minimize_calls, iterations, best,
             evaluated, refined_center>>
pureVars == <<rows, cols, gmask, cand, phase, symMask, image, nanPix, profiles, metric,
              com, refVars>>
maskVars == <<use_mask, mask_dataset, loaded_mask, load_pc>>
schedVars == <<variant, n_images, frame_interval, chunk_size, has_index, mask_ok, frames,
               pc, work, status, out, gpos, folded, df, results, csv, csv_written, progress,
               opens>>
vars == <<pureVars, schedVars, maskVars>>

\* ------------------------------------------------------------ arithmetic
\* np.round: round half to even, of the rational num / den (den > 0)
RoundHalfEven(num, den) ==
    LET f == num \div den
        r == num % den
    IN  IF 2 * r < den THEN f
        ELSE IF 2 * r > den THEN f + 1
        ELSE IF f % 2 = 0 THEN f ELSE f + 1

\* np.indices(image_shape) + ravel(): row-major flat index
NPix(r, c) == r * c
RowOf(i, c) == i \div c
ColOf(i, c) == i % c

\* ------------------------------------------------ build_symmetric_mask_fast
\* mirror_x / mirror_y: np.round(2.0*cx - x_flat), np.round(2.0*cy - y_flat)
MirrorX(i, c, cx) == RoundHalfEven(2 * cx - Den * ColOf(i, c), Den)
MirrorY(i, c, cy) == RoundHalfEven(2 * cy - Den * RowOf(i, c), Den)

\* mirror_index[i]: flattened mirror index, -1 when out of the frame
MirrorIndex(i, r, c, cy, cx) ==
    LET mx == MirrorX(i, c, cx)
        my == MirrorY(i, c, cy)
    IN  IF (0 <= mx /\ mx < c) /\ (0 <= my /\ my < r) THEN my * c + mx ELSE -1

\* the single pass that marks pairs, from pixel i on, sym being sym_valid so far
RECURSIVE MarkPairs(_, _, _, _, _, _, _)
MarkPairs(i, sym, r, c, gm, cy, cx) ==
    IF i >= NPix(r, c) THEN sym
    ELSE LET j == MirrorIndex(i, r, c, cy, cx)
             nxt == IF j < 0 THEN sym
                    ELSE IF j > i
                         THEN (IF gm[i] /\ gm[j] THEN sym \cup {i, j} ELSE sym)
                    ELSE IF j = i
                         THEN (IF gm[i] THEN sym \cup {i} ELSE sym)
                    ELSE sym
         IN  MarkPairs(i + 1, nxt, r, c, gm, cy, cx)

BuildSymmetricMaskFast(r, c, gm, cy, cx) == MarkPairs(0, {}, r, c, gm, cy, cx)


\* ---------------------------------------------------- compute_bin_medians
\* tmp.sort(): insertion of v into the ascending sequence s
RECURSIVE Insert(_, _)
Insert(v, s) ==
    IF s = <<>> THEN <<v>>
    ELSE IF v <= Head(s) THEN <<v>> \o s
    ELSE <<Head(s)>> \o Insert(v, Tail(s))

RECURSIVE SortAsc(_)
SortAsc(s) == IF s = <<>> THEN <<>> ELSE Insert(Head(s), SortAsc(Tail(s)))

\* one cell of a profile: NaN, or twice the median
NaNCell == [nan |-> TRUE, med2 |-> 0]
Cell(m2) == [nan |-> FALSE, med2 |-> m2]

\* the upper middle value taken for the median of an even count
BinMedianUpperMiddle(bin_i, members, bins, img, nans) ==
    LET sel == SelectSeq(members, LAMBDA p : bins[p] = bin_i)
        count == Len(sel)
        any_nan == \E k \in 1 .. count : sel[k] \in nans
    IN  IF count = 0 \/ any_nan THEN NaNCell
        ELSE LET tmp == SortAsc([k \in 1 .. count |-> img[sel[k]]])
             IN  Cell(2 * tmp[(count \div 2) + 1])

\* result[bin_i] for the members (pixels, in flat order) of one wedge;
\* bins[j] is bin_indices[j], img and nans give wedge_vals[j]
BinMedian(bin_i, members, bins, img, nans) ==
    LET sel == SelectSeq(members, LAMBDA p : bins[p] = bin_i)
        count == Len(sel)
        any_nan == \E k \in 1 .. count : sel[k] \in nans
    IN  IF count = 0 \/ any_nan THEN NaNCell
        ELSE LET tmp == SortAsc([k \in 1 .. count |-> img[sel[k]]])
                 mid == count \div 2
             IN  IF count % 2 = 1 THEN Cell(2 * tmp[mid + 1])
                 ELSE Cell(tmp[mid] + tmp[mid + 1])

ComputeBinMedians(members, bins, img, nans, n_bins) ==
    [bin_i \in 0 .. n_bins - 1 |-> BinMedian(bin_i, members, bins, img, nans)]

\* ------------------------------------------- compute_wedge_radial_profiles
\* new_dx, new_dy of pixel i: (col - base) - (centre - base), in 1/Den pixels
NewDx(i, c, base, ctr) == (Den * ColOf(i, c) - base[1]) - (ctr[1] - base[1])
NewDy(i, c, base, ctr) == (Den * RowOf(i, c) - base[2]) - (ctr[2] - base[2])

\* theta >= -pi + k * wedge_step for theta = arctan2(dy, dx) and n_wedges = 4
\* (arctan2(0, dx) is pi for dx < 0 and 0 otherwise)
ThetaGE(k, dx, dy) ==
    CASE k <= 0 -> TRUE
      [] k = 1 -> dy >= 0 \/ dx >= 0
      [] k = 2 -> dy >= 0
      [] k = 3 -> (dy > 0 /\ dx <= 0) \/ (dy = 0 /\ dx < 0)
      [] k = 4 -> dy = 0 /\ dx < 0
      [] OTHER -> FALSE

\* (theta >= angle_min) & (theta < angle_max)
InWedge(w, dx, dy) == ThetaGE(w, dx, dy) /\ ~ThetaGE(w + 1, dx, dy)

\* np.digitize(r, r_edges) - 1 with r_edges = linspace(0, r_max, n + 1) and
\* r_max = min(image.shape) / 2: the number of edges <= r, less one
BinIndex(dx, dy, r, c, n) ==
    LET m == IF r < c THEN r ELSE c
        d2 == dx * dx + dy * dy
    IN  Cardinality({e \in 0 .. n : (e * m * Den) * (e * m * Den) <= 4 * n * n * d2}) - 1

RECURSIVE SetToSortedSeq(_)
SetToSortedSeq(S) ==
    IF S = {} THEN <<>>
    ELSE LET lo == CHOOSE x \in S : \A y \in S : x <= y
         IN  <<lo>> \o SetToSortedSeq(S \ {lo})

WedgeProfile(w, img, nans, mask, r, c, base, ctr, n_bins) ==
    LET wedge_mask == {i \in mask :
                          InWedge(w, NewDx(i, c, base, ctr), NewDy(i, c, base, ctr))}
        bins == [i \in wedge_mask |->
                    BinIndex(NewDx(i, c, base, ctr), NewDy(i, c, base, ctr), r, c, n_bins)]
    IN  ComputeBinMedians(SetToSortedSeq(wedge_mask), bins, img, nans, n_bins)

ComputeWedgeRadialProfiles(img, nans, mask, r, c, base, ctr, n_wedges, n_bins) ==
    [w \in 0 .. n_wedges - 1 |-> WedgeProfile(w, img, nans, mask, r, c, base, ctr, n_bins)]

\* ------------------------------------------------- center_asymmetry_metric
\* a metric value: +inf, or num / (4 * den)  (num sums squares of doubled medians)
InfMetric == [inf |-> TRUE, num |-> 0, den |-> 1]
Ratio(total, count) == [inf |-> FALSE, num |-> total, den |-> count]

RECURSIVE SumOver(_, _)
SumOver(S, f) ==
    IF S = {} THEN 0
    ELSE LET x == CHOOSE y \in S : TRUE IN f[x] + SumOver(S \ {x}, f)

\* the loop over the first half of the wedges, from wedge i on
RECURSIVE CompareWedges(_, _, _, _, _, _)
CompareWedges(i, half, prof, n_bins, total_diff, count) ==
    IF i >= half THEN <<total_diff, count>>
    ELSE LET p1 == prof[i]
             p2 == prof[i + half]
             valid == {b \in 0 .. n_bins - 1 : ~p1[b].nan /\ ~p2[b].nan}
             sq == [b \in valid |-> (p1[b].med2 - p2[b].med2) * (p1[b].med2 - p2[b].med2)]
         IN  IF valid # {}
             THEN CompareWedges(i + 1, half, prof, n_bins,
                                total_diff + SumOver(valid, sq), count + Cardinality(valid))
             ELSE CompareWedges(i + 1, half, prof, n_bins, total_diff, count)

\* a slip in the final division: 0 instead of +inf when nothing is comparable
MetricOfProfilesZeroWhenEmpty(prof, n_wedges, n_bins) ==
    LET acc == CompareWedges(0, n_wedges \div 2, prof, n_bins, 0, 0)
    IN  IF acc[2] > 0 THEN Ratio(acc[1], acc[2]) ELSE Ratio(0, 1)

MetricOfProfiles(prof, n_wedges, n_bins) ==
    LET acc == CompareWedges(0, n_wedges \div 2, prof, n_bins, 0, 0)
    IN  IF acc[2] > 0 THEN Ratio(acc[1], acc[2]) ELSE InfMetric

\* sym_mask of the candidate, then the profiles, then the comparison
SymMaskAt(r, c, gm, ctr) == BuildSymmetricMaskFast(r, c, gm, ctr[2], ctr[1])

ProfilesAt(ctr, img, nans, gm, r, c, base, n_wedges, n_bins) ==
    ComputeWedgeRadialProfiles(img, nans, SymMaskAt(r, c, gm, ctr), r, c, base, ctr,
                               n_wedges, n_bins)

CenterAsymmetryMetric(ctr, img, nans, gm, r, c, base, n_wedges, n_bins) ==
    MetricOfProfiles(ProfilesAt(ctr, img, nans, gm, r, c, base, n_wedges, n_bins),
                     n_wedges, n_bins)

NoProfiles == [w \in 0 .. NWedges - 1 |-> [b \in 0 .. NRadBins - 1 |-> NaNCell]]
NoMetric == InfMetric


\* ================================================================ schedulers
\* ------------------------------------------------------------- coordinates
\* a float: finite with value v, NaN, or +inf
Fin(v) == [fin |-> TRUE, nan |-> FALSE, v |-> v]
NaN == [fin |-> FALSE, nan |-> TRUE, v |-> 0]
PosInf == [fin |-> FALSE, nan |-> FALSE, v |-> 0]

IsFinite(a) == a.fin                                  \* np.isfinite
InRange(lo, a, hi) ==                                 \* lo <= a < hi
    IF a.nan THEN FALSE ELSE IF a.fin THEN lo <= a.v /\ a.v < hi ELSE FALSE

NaNPair == <<NaN, NaN>>
PIn == <<Fin(XMin), Fin(YMin)>>                       \* a point of the ROI
PIn2 == <<Fin(XMax - 1), Fin(YMax - 1)>>              \* another one
POut == <<Fin(XMax), Fin(YMin)>>                      \* x on the excluded bound

\* +inf taken for a metric below the tolerance
MetricBelowOrInf(m, tol) == m.inf \/ m.num < 4 * tol * m.den

\* initial_metric < skip_tol, the metric being num / (4 * den) or +inf
MetricBelow(m, tol) == ~m.inf /\ m.num < 4 * tol * m.den

\* ------------------------------------------------------------------ frames
\* what the pipeline finds in a frame: the centroid guess, the metric at the
\* guess, and the point the Nelder-Mead search ends at when it runs
Frame(g, m, o) == [readable |-> TRUE, guess |-> g, initial_metric |-> m, opt |-> o]
SkipIn == Frame(PIn, Ratio(0, 1), PIn)                   \* already centred
SkipOut == Frame(POut, Ratio(0, 1), POut)                \* centred off the ROI
Conv == Frame(PIn, Ratio(4 * SkipTol, 1), PIn2)          \* refined inside the ROI
Drift == Frame(PIn, Ratio(4 * SkipTol, 1), POut)         \* refined off the ROI
NoCmp == Frame(PIn, InfMetric, PIn)                      \* no comparable bin anywhere
NonFinite == Frame(NaNPair, InfMetric, NaNPair)          \* NaN pixels: NaN centroid
Unreadable == [readable |-> FALSE, guess |-> NaNPair, initial_metric |-> InfMetric,
               opt |-> NaNPair]                          \* the read raises
FrameKinds == {SkipIn, SkipOut, Conv, Drift, NoCmp, NonFinite, Unreadable}

\* ------------------------------------------------- the per-frame pipeline
CenterOfMassInitialGuess(fr) == fr.guess

FindDiffractionCenter(fr, initial_center) ==
    IF MetricBelow(fr.initial_metric, SkipTol) THEN initial_center ELSE fr.opt

ProcessSingleImage(fr) == FindDiffractionCenter(fr, CenterOfMassInitialGuess(fr))

\* "If out-of-bounds or invalid => NaN"
Validated(c) ==
    IF ~(IsFinite(c[1]) /\ IsFinite(c[2])
         /\ InRange(XMin, c[1], XMax) /\ InRange(YMin, c[2], YMax))
    THEN NaNPair ELSE c

\* the mask's shape taken for granted
RaisesIgnoringMask(fs, ok, fn) == fn \notin DOMAIN fs \/ ~fs[fn].readable

\* images[fn] raises for a frame number outside the dataset or an unreadable
\* frame; image[mask] raises for a mask of another shape
Raises(fs, ok, fn) == fn \notin DOMAIN fs \/ ~fs[fn].readable \/ ~ok

\* compute_center_for_frame: (frame_num, cx, cy)
ComputeCenterForFrame(fs, fn) ==
    LET c == Validated(ProcessSingleImage(fs[fn])) IN <<fn, c[1], c[2]>>

\* process_one_frame: (frame_num, cx, cy)
ProcessOneFrame(fs, fn) ==
    LET init_center == CenterOfMassInitialGuess(fs[fn])
    IN  IF ~(InRange(XMin, init_center[1], XMax) /\ InRange(YMin, init_center[2], YMax))
        THEN <<fn, NaN, NaN>>
        ELSE LET c == FindDiffractionCenter(fs[fn], init_center)
             IN  IF ~(InRange(XMin, c[1], XMax) /\ InRange(YMin, c[2], YMax))
                 THEN <<fn, NaN, NaN>>
                 ELSE <<fn, c[1], c[2]>>

\* every record of the chunk given the chunk's first data_index
ComputeCentersForChunkFirstIndex(fs, frame_nums, data_indices) ==
    [i \in 1 .. Len(frame_nums) |->
        LET c == Validated(ProcessSingleImage(fs[frame_nums[i]]))
        IN  <<frame_nums[i], data_indices[1], c[1], c[2]>>]

\* compute_centers_for_chunk: [(frame_num, data_index, cx, cy), ...]
ComputeCentersForChunk(fs, frame_nums, data_indices) ==
    [i \in 1 .. Len(frame_nums) |->
        LET c == Validated(ProcessSingleImage(fs[frame_nums[i]]))
        IN  <<frame_nums[i], data_indices[i], c[1], c[2]>>]

\* ------------------------------------------------------ sampling, chunking
\* a list concatenation in place of the set union: frame 0 comes twice
FramesToProcessWithRepeats(n, k) ==
    <<0>> \o SetToSortedSeq({0, n - 1} \cup {i \in 0 .. n - 1 : i % k = 0})

\* the last frame forgotten
FramesToProcessNoLast(n, k) ==
    SetToSortedSeq({0} \cup {i \in 0 .. n - 1 : i % k = 0})

\* sorted(set([0, n_images - 1]) | {i for i in range(n_images) if i % k == 0})
FramesToProcess(n, k) ==
    SetToSortedSeq({0, n - 1} \cup {i \in 0 .. n - 1 : i % k = 0})

Min(a, b) == IF a < b THEN a ELSE b

\* slices one element too long: seq[i:i+size+1]
ChunksOfOverlapping(seq, size) ==
    [j \in 1 .. (Len(seq) + size - 1) \div size |->
        SubSeq(seq, (j - 1) * size + 1, Min(j * size + 1, Len(seq)))]

\* [seq[i:i+size] for i in range(0, len(seq), size)]
ChunksOf(seq, size) ==
    [j \in 1 .. (Len(seq) + size - 1) \div size |->
        SubSeq(seq, (j - 1) * size + 1, Min(j * size, Len(seq)))]

\* the selection left out: every frame of range(start_idx, end_idx)
ChunkFrameIndicesUnfiltered(start_idx, end_idx, n, k) ==
    [j \in 1 .. end_idx - start_idx |-> start_idx + j - 1]

\* process_images: the frames of range(start_idx, end_idx) that are selected
ChunkFrameIndices(start_idx, end_idx, n, k) ==
    SetToSortedSeq({i \in start_idx .. end_idx - 1 : i = 0 \/ i = n - 1 \/ i % k = 0})

\* the first start_idx from s on whose range holds a selected frame, or n
\* when there is none (the loop "continue"s over the empty ranges)
RECURSIVE NextStart(_, _, _, _)
NextStart(s, n, k, size) ==
    IF s >= n THEN n
    ELSE IF ChunkFrameIndices(s, Min(s + size, n), n, k) # <<>> THEN s
    ELSE NextStart(s + size, n, k, size)

\* the chunk's data_index values taken by position in the chunk
DIndicesByPosition(chunk, data_index_all) ==
    [j \in 1 .. Len(chunk) |-> data_index_all[j - 1]]

\* d_indices = [data_index_all[fn] for fn in chunk]
DIndices(chunk, data_index_all) ==
    [j \in 1 .. Len(chunk) |-> data_index_all[chunk[j]]]

\* index_dset[:], or np.arange(n_images) where the scheduler falls back
IndexArray(n) == [f \in 0 .. n - 1 |-> 2 * (n - 1 - f) + 1]
Arange(n) == [f \in 0 .. n - 1 |-> f]

\* ------------------------------------------------------------ the table
Row(fn, di, cx, cy) ==
    [frame_number |-> fn, data_index |-> di, center_x |-> cx, center_y |-> cy]

NaNTable(n) == [f \in 0 .. n - 1 |-> NaNPair]

\* only the first record of the list is placed
PlaceHeadOnly(d, recs) ==
    IF recs = <<>> THEN d
    ELSE [f \in DOMAIN d \cup {Head(recs)[1]} |->
             IF f = Head(recs)[1] THEN <<Head(recs)[2], Head(recs)[3]>> ELSE d[f]]

\* df.at[fn, "center_x"] = cx; df.at[fn, "center_y"] = cy
RECURSIVE Place(_, _)
Place(d, recs) ==
    IF recs = <<>> THEN d
    ELSE LET r == Head(recs)
         IN  Place([f \in DOMAIN d \cup {r[1]} |->
                       IF f = r[1] THEN <<r[2], r[3]>> ELSE d[f]], Tail(recs))

\* the rows of df, in index order, that keep(f) retains
RECURSIVE RowsFrom(_, _, _, _)
RowsFrom(f, d, idx, keep) ==
    IF f \notin DOMAIN d THEN <<>>
    ELSE (IF f \in keep THEN <<Row(f, idx[f], d[f][1], d[f][2])>> ELSE <<>>)
         \o RowsFrom(f + 1, d, idx, keep)

\* the filter forgotten: every row of df is written
DropNaKeepsAll(d, idx) == RowsFrom(0, d, idx, DOMAIN d)

\* df.dropna(subset=["center_x", "center_y"])
DropNa(d, idx) == RowsFrom(0, d, idx, {f \in DOMAIN d : ~d[f][1].nan /\ ~d[f][2].nan})

\* df[df["frame_number"].isin(frames_to_process)]
IsIn(d, idx, fset) == RowsFrom(0, d, idx, fset)

\* df_part.sort_values("frame_number")
RECURSIVE InsertRow(_, _)
InsertRow(r, s) ==
    IF s = <<>> THEN <<r>>
    ELSE IF r.frame_number < Head(s).frame_number THEN <<r>> \o s
    ELSE <<Head(s)>> \o InsertRow(r, Tail(s))

\* sort_values(..., ascending=False)
RECURSIVE SortValuesDescending(_)
SortValuesDescending(s) ==
    IF s = <<>> THEN <<>>
    ELSE LET hi == CHOOSE j \in 1 .. Len(s) :
                       \A m \in 1 .. Len(s) : s[m].frame_number <= s[j].frame_number
         IN  <<s[hi]>> \o SortValuesDescending([m \in 1 .. Len(s) - 1 |->
                                                  IF m < hi THEN s[m] ELSE s[m + 1]])

RECURSIVE SortValues(_)
SortValues(s) ==
    IF s = <<>> THEN <<>> ELSE InsertRow(s[Len(s)], SortValues(SubSeq(s, 1, Len(s) - 1)))

\* ------------------------------------------------------ dataset handles
\* no pool yet
NoOpens == [init |-> 0, task |-> <<>>]

\* h5py.File calls of a worker's initializer: worker_init opens the file
\* once; the other pools have no initializer
WorkerInitOpens(v) == IF v = "unordered" THEN 1 ELSE 0

\* the frames of a work item a worker gets to: all of them, or those up to
\* the first that raises
Attempted(item) ==
    IF \E j \in 1 .. Len(item) : Raises(frames, mask_ok, item[j])
    THEN CHOOSE j \in 1 .. Len(item) :
             /\ Raises(frames, mask_ok, item[j])
             /\ \A m \in 1 .. j - 1 : ~Raises(frames, mask_ok, item[m])
    ELSE Len(item)

\* h5py.File calls of a worker while it runs a work item:
\* compute_center_for_frame opens the file for its frame,
\* compute_centers_for_chunk once for its chunk, process_one_frame and
\* process_single_image not at all
TaskOpens(v, item) ==
    CASE v \in {"chunked", "apply_async"} -> Attempted(item)
      [] v = "partial" -> 1
      [] OTHER -> 0

\* ------------------------------------------------------- pure-function harness
Masks(r, c) == [0 .. NPix(r, c) - 1 -> BOOLEAN]
Centres(r, c) == (0 .. Den * c) \X (0 .. Den * r)

\* the front end's mask loading not under way
NoArray == [shape |-> <<>>, data |-> <<>>]
IdleLoad ==
    /\ use_mask = TRUE
    /\ mask_dataset = NoArray
    /\ loaded_mask = NoArray
    /\ load_pc = "idle"

\* no call of center_of_mass_initial_guess
NoGuess == [nan |-> FALSE, xn |-> 0, yn |-> 0, d |-> 0]
IdleGuess == com = NoGuess

\* no call of find_diffraction_center
IdleRefine ==
    /\ objective = <<>>
    /\ x0 = NaNPair
    /\ rpc = "idle"
    /\ init_metric = InfMetric
    /\ minimize_calls = 0
    /\ iterations = 0
    /\ best = NaNPair
    /\ evaluated = {}
    /\ refined_center = NaNPair

\* the schedulers at rest while a pure function is exercised
IdleSched ==
    /\ variant = "none"
    /\ n_images = 0
    /\ frame_interval = 1
    /\ chunk_size = 1
    /\ has_index = TRUE
    /\ mask_ok = TRUE
    /\ frames = <<>>
    /\ pc = "idle"
    /\ work = <<>>
    /\ status = <<>>
    /\ out = <<>>
    /\ gpos = 0
    /\ folded = {}
    /\ df = <<>>
    /\ results = <<>>
    /\ csv = <<>>
    /\ csv_written = FALSE
    /\ progress = 0
    /\ opens = NoOpens

InitMask ==
    /\ IdleLoad
    /\ IdleSched
    /\ IdleGuess
    /\ IdleRefine
    /\ rows \in 1 .. Rows
    /\ cols \in 1 .. Cols
    /\ gmask \in Masks(rows, cols)
    /\ cand \in Centres(rows, cols)
    /\ phase = "input"
    /\ symMask = {}
    /\ image = [i \in 0 .. NPix(rows, cols) - 1 |-> 0]
    /\ nanPix = {}
    /\ profiles = NoProfiles
    /\ metric = NoMetric

\* a call of build_symmetric_mask_fast(image.shape, global_mask, (cy, cx))
CallBuildMask ==
    /\ phase = "input"
    /\ symMask' = BuildSymmetricMaskFast(rows, cols, gmask, cand[2], cand[1])
    /\ phase' = "masked"
    /\ UNCHANGED <<rows, cols, gmask, cand, image, nanPix, profiles, metric>>
    /\ UNCHANGED <<com, refVars, schedVars, maskVars>>

NextMask == CallBuildMask

SpecMask == InitMask /\ [][NextMask]_vars

\* frames of the metric harness: a dark background with lit pixels
Dark(r, c) == [i \in 0 .. NPix(r, c) - 1 |-> 0]
Lit(img, p, v) == [img EXCEPT ![p] = v]
OneLit(r, c) ==
    {Lit(Dark(r, c), p, v) : p \in 0 .. NPix(r, c) - 1, v \in 0 .. MaxVal}
TwoLit(r, c) ==
    UNION {{Lit(img, p, v) : p \in 0 .. NPix(r, c) - 1, v \in 0 .. MaxVal} :
              img \in OneLit(r, c)}

AllValid(r, c) == [i \in 0 .. NPix(r, c) - 1 |-> TRUE]
OneInvalid(r, c) == {[AllValid(r, c) EXCEPT ![p] = FALSE] : p \in 0 .. NPix(r, c) - 1}

\* candidate centres around the middle pixel position
MidCentres(r, c) ==
    {ctr \in Centres(r, c) :
        /\ 2 * ctr[1] - Den * (c - 1) \in -2 * (Den \div 2) .. 2 * (Den \div 2)
        /\ 2 * ctr[2] - Den * (r - 1) \in -2 * (Den \div 2) .. 2 * (Den \div 2)}

InitMetric ==
    /\ IdleLoad
    /\ IdleSched
    /\ IdleGuess
    /\ IdleRefine
    /\ rows = Rows
    /\ cols = Cols
    /\ \/ /\ gmask = AllValid(rows, cols)
          /\ image \in TwoLit(rows, cols)
          /\ nanPix = {}
       \/ /\ gmask \in OneInvalid(rows, cols)
          /\ image \in OneLit(rows, cols)
          /\ nanPix = {}
       \/ /\ gmask = AllValid(rows, cols)
          /\ image = Dark(rows, cols)
          /\ nanPix \in {{i} : i \in 0 .. NPix(rows, cols) - 1}
    /\ cand \in MidCentres(rows, cols)
    /\ phase = "input"
    /\ symMask = {}
    /\ profiles = NoProfiles
    /\ metric = NoMetric

\* a call of center_asymmetry_metric(candidate_center, image, global_mask,
\* base_center, ...) with the candidate as base centre
CallMetric ==
    /\ phase = "input"
    /\ symMask' = SymMaskAt(rows, cols, gmask, cand)
    /\ LET prof == ProfilesAt(cand, image, nanPix, gmask, rows, cols, cand,
                              NWedges, NRadBins)
       IN  /\ profiles' = prof
           /\ metric' = MetricOfProfiles(prof, NWedges, NRadBins)
    /\ phase' = "metric"
    /\ UNCHANGED <<rows, cols, gmask, cand, image, nanPix>>
    /\ UNCHANGED <<com, refVars, schedVars, maskVars>>

NextMetric == CallMetric

SpecMetric == InitMetric /\ [][NextMetric]_vars

\* ------------------------------------------- center_of_mass_initial_guess
\* the geometric centre taken at the middle of the pixel grid
CenterOfMassPixelCentre(img, nans, mask, r, c) ==
    LET valid == {p \in 0 .. NPix(r, c) - 1 : mask[p]}
        total_intensity == SumOver(valid, img)
    IN  IF valid \cap nans # {} THEN [nan |-> TRUE, xn |-> 0, yn |-> 0, d |-> 1]
        ELSE IF total_intensity = 0
        THEN [nan |-> FALSE, xn |-> c - 1, yn |-> r - 1, d |-> 2]
        ELSE [nan |-> FALSE,
              xn |-> SumOver(valid, [p \in valid |-> ColOf(p, c) * img[p]]),
              yn |-> SumOver(valid, [p \in valid |-> RowOf(p, c) * img[p]]),
              d |-> total_intensity]

\* rows and columns counted from one
CenterOfMassOneBased(img, nans, mask, r, c) ==
    LET valid == {p \in 0 .. NPix(r, c) - 1 : mask[p]}
        total_intensity == SumOver(valid, img)
    IN  IF valid \cap nans # {} THEN [nan |-> TRUE, xn |-> 0, yn |-> 0, d |-> 1]
        ELSE IF total_intensity = 0
        THEN [nan |-> FALSE, xn |-> c, yn |-> r, d |-> 2]
        ELSE [nan |-> FALSE,
              xn |-> SumOver(valid, [p \in valid |-> (ColOf(p, c) + 1) * img[p]]),
              yn |-> SumOver(valid, [p \in valid |-> (RowOf(p, c) + 1) * img[p]]),
              d |-> total_intensity]

\* center_of_mass_initial_guess(image, mask): (cx, cy) = (xn / d, yn / d),
\* NaN when a valid pixel is NaN
CenterOfMass(img, nans, mask, r, c) ==
    LET valid == {p \in 0 .. NPix(r, c) - 1 : mask[p]}
        total_intensity == SumOver(valid, img)
    IN  IF valid \cap nans # {} THEN [nan |-> TRUE, xn |-> 0, yn |-> 0, d |-> 1]
        ELSE IF total_intensity = 0
        THEN [nan |-> FALSE, xn |-> c, yn |-> r, d |-> 2]
        ELSE [nan |-> FALSE,
              xn |-> SumOver(valid, [p \in valid |-> ColOf(p, c) * img[p]]),
              yn |-> SumOver(valid, [p \in valid |-> RowOf(p, c) * img[p]]),
              d |-> total_intensity]

\* frames with intensities of both signs: a dark background with at most two
\* pixels that are not zero
TwoSigned(r, c) ==
    {[i \in 0 .. NPix(r, c) - 1 |->
         IF i = p THEN v ELSE IF i = q THEN w ELSE 0] :
        p \in 0 .. NPix(r, c) - 1, q \in 0 .. NPix(r, c) - 1,
        v \in -MaxSigned .. MaxSigned, w \in -MaxSigned .. MaxSigned}

InitGuess ==
    /\ IdleLoad
    /\ IdleSched
    /\ IdleRefine
    /\ rows \in 1 .. Rows
    /\ cols \in 1 .. Cols
    /\ \/ /\ gmask \in {AllValid(rows, cols)} \cup OneInvalid(rows, cols)
          /\ image \in TwoSigned(rows, cols)
          /\ nanPix = {}
       \/ /\ gmask \in OneInvalid(rows, cols)
          /\ image = Dark(rows, cols)
          /\ nanPix \in {{i} : i \in 0 .. NPix(rows, cols) - 1}
    /\ cand = <<0, 0>>
    /\ phase = "input"
    /\ symMask = {}
    /\ profiles = NoProfiles
    /\ metric = NoMetric
    /\ com = NoGuess

\* a call of center_of_mass_initial_guess(image, mask)
CallGuess ==
    /\ phase = "input"
    /\ com' = CenterOfMass(image, nanPix, gmask, rows, cols)
    /\ phase' = "guessed"
    /\ UNCHANGED <<rows, cols, gmask, cand, symMask, image, nanPix, profiles, metric>>
    /\ UNCHANGED <<refVars, schedVars, maskVars>>

NextGuess == CallGuess

SpecGuess == InitGuess /\ [][NextGuess]_vars

\* ------------------------------------------------------- scheduler actions
Variants == {"chunked", "apply_async", "unordered", "partial", "with_index"}

\* the pure-function harness at rest while a scheduler runs
IdleImage ==
    /\ rows = 1
    /\ cols = 1
    /\ gmask = AllValid(1, 1)
    /\ cand = <<0, 0>>
    /\ phase = "idle"
    /\ symMask = {}
    /\ image = Dark(1, 1)
    /\ nanPix = {}
    /\ profiles = NoProfiles
    /\ metric = NoMetric

IdlePure == IdleImage /\ IdleGuess /\ IdleRefine

\* a run: a file, a mask and the arguments of the scheduler
Init ==
    /\ IdleLoad
    /\ IdlePure
    /\ variant \in Variants
    /\ n_images \in 0 .. MaxImages
    /\ frame_interval \in 1 .. MaxInterval
    /\ chunk_size \in 1 .. MaxChunk
    /\ variant \in {"apply_async", "unordered"} => chunk_size = 1
    /\ has_index \in BOOLEAN
    /\ mask_ok \in BOOLEAN
    /\ frames \in [0 .. n_images - 1 -> FrameKinds]
    \* a frame the sampling policy leaves out is at most read, never refined
    /\ \A f \in DOMAIN frames :
          (f # 0 /\ f # n_images - 1 /\ f % frame_interval # 0)
          => frames[f] \in {Conv, Unreadable}
    /\ (~has_index \/ ~mask_ok) => \A f \in DOMAIN frames : frames[f] = Conv
    /\ pc = "start"
    /\ work = <<>>
    /\ status = <<>>
    /\ out = <<>>
    /\ gpos = 0
    /\ folded = {}
    /\ df = <<>>
    /\ results = <<>>
    /\ csv = <<>>
    /\ csv_written = FALSE
    /\ progress = 0
    /\ opens = NoOpens

\* data_index_all
DataIndexAll == IF has_index THEN IndexArray(n_images) ELSE Arange(n_images)

Pending(items) == [i \in 1 .. Len(items) |-> "pending"]
NoOutput(items) == [i \in 1 .. Len(items) |-> <<>>]

\* an exception reaches the caller: the run ends, nothing more is written
Raise ==
    /\ pc' = "raised"
    /\ UNCHANGED <<work, status, out, opens, gpos, folded, df, results, csv, csv_written, progress>>

\* the work items go to the pool
Dispatch(items) ==
    /\ work' = work \o items
    /\ status' = status \o Pending(items)
    /\ out' = out \o NoOutput(items)
    /\ opens' = [init |-> WorkerInitOpens(variant),
                 task |-> opens.task \o [i \in 1 .. Len(items) |-> 0]]
    /\ pc' = "running"

\* the prologue shared by the schedulers that require '/entry/data/index':
\* raise ValueError without it, else the NaN DataFrame and the tasks
StartStrict(items) ==
    /\ pc = "start"
    /\ IF ~has_index THEN Raise
       ELSE /\ df' = NaNTable(n_images)
            /\ Dispatch(items)
            /\ UNCHANGED <<gpos, folded, results, csv, csv_written, progress>>
    /\ UNCHANGED <<pureVars, maskVars, variant, n_images, frame_interval, chunk_size, has_index,
                   mask_ok, frames>>

\* process_images_chunked up to pool.imap(..., chunksize=chunk_size)
StartChunked ==
    /\ variant = "chunked"
    /\ StartStrict(ChunksOf(FramesToProcess(n_images, frame_interval), chunk_size))

\* process_images_apply_async (image_processing_v2) up to the apply_async calls
StartApplyAsync ==
    /\ variant = "apply_async"
    /\ StartStrict(ChunksOf(FramesToProcess(n_images, frame_interval), 1))

\* process_images_apply_async (image_processing_fast) up to imap_unordered
StartUnordered ==
    /\ variant = "unordered"
    /\ StartStrict(ChunksOf(FramesToProcess(n_images, frame_interval), 1))

\* process_images_partial up to pool.imap: data_index_all[fn] raises
\* IndexError for a frame number outside the array
StartPartial ==
    /\ variant = "partial"
    /\ pc = "start"
    /\ LET ftp == FramesToProcess(n_images, frame_interval)
       IN  IF \E j \in 1 .. Len(ftp) : ftp[j] \notin DOMAIN DataIndexAll THEN Raise
           ELSE /\ Dispatch(ChunksOf(ftp, chunk_size))
                /\ UNCHANGED <<gpos, folded, df, results, csv, csv_written, progress>>
    /\ UNCHANGED <<pureVars, maskVars, variant, n_images, frame_interval, chunk_size, has_index,
                   mask_ok, frames>>

\* load_chunk raises: images[start:end] on an unreadable frame of the range,
\* f['/entry/data/index'] (KeyError) without the index dataset
LoadChunkRaises(start, end) ==
    \/ \E f \in start .. end - 1 : ~frames[f].readable
    \/ ~has_index

\* process_images: from start_idx s on, skip the ranges without a selected
\* frame, load_chunk the next one and starmap its selected frames;
\* "Processing complete" when no range is left
NextChunk(s) ==
    LET ns == NextStart(s, n_images, frame_interval, chunk_size)
        end_idx == Min(ns + chunk_size, n_images)
    IN  IF ns >= n_images
        THEN /\ pc' = "done"
             /\ UNCHANGED <<work, status, out, opens>>
        ELSE IF LoadChunkRaises(ns, end_idx)
        THEN /\ pc' = "raised"
             /\ UNCHANGED <<work, status, out, opens>>
        ELSE Dispatch(ChunksOf(ChunkFrameIndices(ns, end_idx, n_images, frame_interval), 1))

StartWithIndex ==
    /\ variant = "with_index"
    /\ pc = "start"
    /\ NextChunk(0)
    /\ UNCHANGED <<gpos, folded, df, results, csv, csv_written, progress>>
    /\ UNCHANGED <<pureVars, maskVars, variant, n_images, frame_interval, chunk_size, has_index,
                   mask_ok, frames>>

\* what the worker function of the variant returns for a work item
WorkerResult(item) ==
    CASE variant \in {"chunked", "apply_async"} ->
            [j \in 1 .. Len(item) |-> ComputeCenterForFrame(frames, item[j])]
      [] variant = "unordered" ->
            [j \in 1 .. Len(item) |-> ProcessOneFrame(frames, item[j])]
      [] variant = "partial" ->
            ComputeCentersForChunk(frames, item, DIndices(item, DataIndexAll))
      [] OTHER ->
            [j \in 1 .. Len(item) |-> ProcessSingleImage(frames[item[j]])]

\* a worker that puts its centres into the DataFrame itself
WorkerWritingTable(i) ==
    /\ pc = "running"
    /\ status[i] = "pending"
    /\ IF \E j \in 1 .. Len(work[i]) : Raises(frames, mask_ok, work[i][j])
       THEN /\ status' = [status EXCEPT ![i] = "failed"]
            /\ out' = out
            /\ opens' = [opens EXCEPT !.task[i] = TaskOpens(variant, work[i])]
            /\ df' = df
       ELSE /\ status' = [status EXCEPT ![i] = "ok"]
            /\ out' = [out EXCEPT ![i] = WorkerResult(work[i])]
            /\ opens' = [opens EXCEPT !.task[i] = TaskOpens(variant, work[i])]
            /\ df' = IF variant \in {"chunked", "apply_async", "unordered"}
                     THEN Place(df, WorkerResult(work[i])) ELSE df
    /\ UNCHANGED <<pureVars, maskVars, variant, n_images, frame_interval, chunk_size, has_index,
                   mask_ok, frames, pc, work, gpos, folded, results, csv,
                   csv_written, progress>>

\* a pool worker runs one work item to its end
Worker(i) ==
    /\ pc = "running"
    /\ status[i] = "pending"
    /\ IF \E j \in 1 .. Len(work[i]) : Raises(frames, mask_ok, work[i][j])
       THEN /\ status' = [status EXCEPT ![i] = "failed"]
            /\ out' = out
            /\ opens' = [opens EXCEPT !.task[i] = TaskOpens(variant, work[i])]
       ELSE /\ status' = [status EXCEPT ![i] = "ok"]
            /\ out' = [out EXCEPT ![i] = WorkerResult(work[i])]
            /\ opens' = [opens EXCEPT !.task[i] = TaskOpens(variant, work[i])]
    /\ UNCHANGED <<pureVars, maskVars, variant, n_images, frame_interval, chunk_size, has_index,
                   mask_ok, frames, pc, work, gpos, folded, df, results, csv,
                   csv_written, progress>>

\* the controlling process proceeds without waiting for the work item
ReportedEarly(i) == TRUE

\* the blocking wait of the gather: work item i has reported its result or
\* its failure
Reported(i) == status[i] # "pending"

\* process_images_chunked: list(tqdm(pool.imap(...))) takes the next chunk of
\* results in task order; after the last one the results go into the
\* DataFrame, the NaN rows are dropped and the CSV is written
GatherChunked ==
    /\ variant = "chunked"
    /\ pc = "running"
    /\ gpos < Len(work)
    /\ Reported(gpos + 1)
    /\ IF status[gpos + 1] = "failed" THEN Raise
       ELSE LET got == results \o out[gpos + 1]
            IN  /\ results' = got
                /\ progress' = progress + Len(out[gpos + 1])
                /\ gpos' = gpos + 1
                /\ IF gpos + 1 = Len(work)
                   THEN /\ df' = Place(df, got)
                        /\ csv' = DropNa(Place(df, got), DataIndexAll)
                        /\ csv_written' = TRUE
                        /\ pc' = "done"
                   ELSE UNCHANGED <<df, csv, csv_written, pc>>
                /\ UNCHANGED <<work, status, out, opens, folded>>
    /\ UNCHANGED <<pureVars, maskVars, variant, n_images, frame_interval, chunk_size, has_index,
                   mask_ok, frames>>

\* the (frame_number, data_index, center_x, center_y) rows of a result list
RowsOf(recs) == [j \in 1 .. Len(recs) |-> Row(recs[j][1], recs[j][2], recs[j][3], recs[j][4])]

\* process_images_partial: the imap loop extends results by the next chunk's
\* records; after the last one the table is sorted by frame_number and written
GatherPartial ==
    /\ variant = "partial"
    /\ pc = "running"
    /\ gpos < Len(work)
    /\ Reported(gpos + 1)
    /\ IF status[gpos + 1] = "failed" THEN Raise
       ELSE LET got == results \o out[gpos + 1]
            IN  /\ results' = got
                /\ progress' = progress + 1
                /\ gpos' = gpos + 1
                /\ IF gpos + 1 = Len(work)
                   THEN /\ csv' = SortValues(RowsOf(got))
                        /\ csv_written' = TRUE
                        /\ pc' = "done"
                   ELSE UNCHANGED <<csv, csv_written, pc>>
                /\ UNCHANGED <<work, status, out, opens, folded, df>>
    /\ UNCHANGED <<pureVars, maskVars, variant, n_images, frame_interval, chunk_size, has_index,
                   mask_ok, frames>>

\* image_processing_fast: the imap_unordered loop takes whichever result is
\* ready and places it; after the last one the processed rows are kept and
\* the CSV is written
GatherUnordered(i) ==
    /\ variant = "unordered"
    /\ pc = "running"
    /\ i \notin folded
    /\ Reported(i)
    /\ IF status[i] = "failed" THEN Raise
       ELSE /\ df' = Place(df, out[i])
            /\ progress' = progress + 1
            /\ folded' = folded \cup {i}
            /\ IF folded \cup {i} = 1 .. Len(work)
               THEN /\ csv' = IsIn(Place(df, out[i]), DataIndexAll,
                                   {work[j][1] : j \in 1 .. Len(work)})
                    /\ csv_written' = TRUE
                    /\ pc' = "done"
               ELSE UNCHANGED <<csv, csv_written, pc>>
            /\ UNCHANGED <<work, status, out, opens, gpos, results>>
    /\ UNCHANGED <<pureVars, maskVars, variant, n_images, frame_interval, chunk_size, has_index,
                   mask_ok, frames>>

\* image_processing_v2: the pool's result handler delivers a finished task;
\* update_callback runs for a successful one
DeliverCallback(i) ==
    /\ variant = "apply_async"
    /\ pc = "running"
    /\ i \notin folded
    /\ Reported(i)
    /\ folded' = folded \cup {i}
    /\ IF status[i] = "ok"
       THEN /\ df' = Place(df, out[i])
            /\ progress' = progress + 1
       ELSE UNCHANGED <<df, progress>>
    /\ UNCHANGED <<pureVars, maskVars, variant, n_images, frame_interval, chunk_size, has_index,
                   mask_ok, frames, pc, work, status, out, opens, gpos, results, csv,
                   csv_written>>

\* image_processing_v2: [res.get() for res in async_results] returns from the
\* next get() (or re-raises); after the last one the NaN rows are dropped and
\* the CSV is written
GetAsync ==
    /\ variant = "apply_async"
    /\ pc = "running"
    /\ gpos < Len(work)
    /\ gpos + 1 \in folded
    /\ IF status[gpos + 1] = "failed" THEN Raise
       ELSE /\ gpos' = gpos + 1
            /\ IF gpos + 1 = Len(work)
               THEN /\ csv' = DropNa(df, DataIndexAll)
                    /\ csv_written' = TRUE
                    /\ pc' = "done"
               ELSE UNCHANGED <<csv, csv_written, pc>>
            /\ UNCHANGED <<work, status, out, opens, folded, df, results, progress>>
    /\ UNCHANGED <<pureVars, maskVars, variant, n_images, frame_interval, chunk_size, has_index,
                   mask_ok, frames>>

\* process_images: starmap returns (or re-raises the first failure); the
\* chunk's rows are appended to the CSV, then the loop goes on
CollectChunk ==
    /\ variant = "with_index"
    /\ pc = "running"
    /\ IF \E i \in gpos + 1 .. Len(work) : status[i] = "failed" THEN Raise
       ELSE /\ \A i \in gpos + 1 .. Len(work) : status[i] = "ok"
            /\ csv' = csv \o [j \in 1 .. Len(work) - gpos |->
                                Row(work[gpos + j][1], DataIndexAll[work[gpos + j][1]],
                                    out[gpos + j][1][1], out[gpos + j][1][2])]
            /\ csv_written' = TRUE
            /\ progress' = progress + (Len(work) - gpos)
            /\ gpos' = Len(work)
            /\ NextChunk(((work[Len(work)][1] \div chunk_size) + 1) * chunk_size)
            /\ UNCHANGED <<folded, df, results>>
    /\ UNCHANGED <<pureVars, maskVars, variant, n_images, frame_interval, chunk_size, has_index,
                   mask_ok, frames>>

Next ==
    \/ StartChunked
    \/ StartApplyAsync
    \/ StartUnordered
    \/ StartPartial
    \/ StartWithIndex
    \/ \E i \in 1 .. Len(work) : Worker(i)
    \/ GatherChunked
    \/ GatherPartial
    \/ \E i \in 1 .. Len(work) : GatherUnordered(i)
    \/ \E i \in 1 .. Len(work) : DeliverCallback(i)
    \/ GetAsync
    \/ CollectChunk

Spec == Init /\ [][Next]_vars

\* ------------------------------------------------ find_diffraction_center
\* the candidate points of the refiner harness
GridPoints == {PIn, PIn2, POut}

\* metric values just below skip_tol, equal to it, and +infinity
MetricValues == {Ratio(4 * SkipTol - 1, 1), Ratio(4 * SkipTol, 1), InfMetric}

\* a < b for two metric values
Less(a, b) ==
    IF a.inf THEN FALSE
    ELSE IF b.inf THEN TRUE
    ELSE a.num * b.den < b.num * a.den

\* the simplex keeps whatever vertex was evaluated last as its best
NextBestAlwaysTrial(f, b, t) == t

\* the best vertex after the trial point t has been evaluated
NextBest(f, b, t) == IF Less(f[t], f[b]) THEN t ELSE b

\* the convergence test can hold: fsim[0] - fsim[i] is NaN while every vertex
\* has metric +infinity
MayConverge == ~objective[best].inf

InitRefine ==
    /\ IdleLoad
    /\ IdleSched
    /\ IdleImage
    /\ IdleGuess
    /\ objective \in [GridPoints -> MetricValues]
    /\ x0 \in GridPoints
    /\ rpc = "call"
    /\ init_metric = InfMetric
    /\ minimize_calls = 0
    /\ iterations = 0
    /\ best = NaNPair
    /\ evaluated = {}
    /\ refined_center = NaNPair

RefineUnchanged ==
    UNCHANGED <<rows, cols, gmask, cand, phase, symMask, image, nanPix, profiles,
                metric, com, objective, x0, schedVars, maskVars>>

\* initial_metric = center_asymmetry_metric(initial_center, ...)
EvaluateInitial ==
    /\ rpc = "call"
    /\ init_metric' = objective[x0]
    /\ rpc' = "evaluated"
    /\ UNCHANGED <<minimize_calls, iterations, best, evaluated, refined_center>>
    /\ RefineUnchanged

\* if initial_metric < skip_tol: return initial_center
SkipOptimization ==
    /\ rpc = "evaluated"
    /\ MetricBelow(init_metric, SkipTol)
    /\ refined_center' = x0
    /\ rpc' = "returned"
    /\ UNCHANGED <<init_metric, minimize_calls, iterations, best, evaluated>>
    /\ RefineUnchanged

\* res = minimize(center_asymmetry_metric, x0, method='Nelder-Mead', ...):
\* the simplex is seeded at x0
StartMinimize ==
    /\ rpc = "evaluated"
    /\ ~MetricBelow(init_metric, SkipTol)
    /\ minimize_calls' = minimize_calls + 1
    /\ best' = x0
    /\ evaluated' = {x0}
    /\ rpc' = "refine"
    /\ UNCHANGED <<init_metric, iterations, refined_center>>
    /\ RefineUnchanged

\* one iteration of the simplex loop: a trial point is evaluated
Iterate(t) ==
    /\ rpc = "refine"
    /\ iterations < MaxIter
    /\ iterations' = iterations + 1
    /\ evaluated' = evaluated \cup {t}
    /\ best' = NextBest(objective, best, t)
    /\ UNCHANGED <<rpc, init_metric, minimize_calls, refined_center>>
    /\ RefineUnchanged

\* the loop ends on convergence or with maxiter iterations done;
\* refined_center = res.x
ReturnRefined ==
    /\ rpc = "refine"
    /\ iterations = MaxIter \/ MayConverge
    /\ refined_center' = best
    /\ rpc' = "returned"
    /\ UNCHANGED <<init_metric, minimize_calls, iterations, best, evaluated>>
    /\ RefineUnchanged

NextRefine ==
    \/ EvaluateInitial
    \/ SkipOptimization
    \/ StartMinimize
    \/ \E t \in GridPoints : Iterate(t)
    \/ ReturnRefined

\* the call runs to its end once made
SpecRefine == InitRefine /\ [][NextRefine]_vars /\ WF_vars(NextRefine)

\* ============================================================ claims C1..C5
\* the frames of the work items handed to the pool, in dispatch order
RECURSIVE Flatten(_)
Flatten(items) == IF items = <<>> THEN <<>> ELSE Head(items) \o Flatten(Tail(items))

DispatchedSeq == Flatten(work)
Dispatched == {DispatchedSeq[j] : j \in 1 .. Len(DispatchedSeq)}

\* the sampling policy as the specification states it
SampledSet(n, k) == {0, n - 1} \cup {i \in 0 .. n - 1 : i % k = 0}

\* every work item of the run has been handed to the pool
AllDispatched == pc = "done" \/ (pc = "running" /\ variant # "with_index")

\* the example of the specification, evaluated where the scheduler is called
Sampled1000 == FramesToProcess(1000, 100)
Chunk1000 == ChunkFrameIndices(0, 1000, 1000, 100)
Expected1000 == <<0, 100, 200, 300, 400, 500, 600, 700, 800, 900, 999>>

\* C1: for n >= 1 frames and frame_interval k >= 1 the frames dispatched are
\* exactly {0, n-1} and the multiples of k, each once and no other; for
\* n = 1000 and k = 100 they are 0, 100, ..., 900, 999 (11 frames).
C1_DispatchedFrames ==
    /\ n_images >= 1 =>
          LET seq == DispatchedSeq
              sent == {seq[j] : j \in 1 .. Len(seq)}
              sampled == SampledSet(n_images, frame_interval)
          IN  /\ Cardinality(sent) = Len(seq)
              /\ sent \subseteq sampled
              /\ AllDispatched => sent = sampled
    /\ pc = "start" => (Sampled1000 = Expected1000 /\ Chunk1000 = Expected1000)

\* a finished run whose last frame is no multiple of the interval and that
\* left a frame out
C1_Witness ==
    /\ pc = "done"
    /\ (n_images - 1) % frame_interval # 0
    /\ n_images - 1 \in Dispatched
    /\ Cardinality(Dispatched) < n_images

\* the centre a table holds is accepted: finite and inside the ROI
Accepted(cx, cy) ==
    /\ IsFinite(cx) /\ IsFinite(cy)
    /\ InRange(XMin, cx, XMax) /\ InRange(YMin, cy, YMax)

\* C2: every per-frame result the scheduler records either has both
\* coordinates finite and inside [xmin, xmax) x [ymin, ymax), or has both
\* coordinates NaN, whichever refiner path produced the centre.
C2_RecordsValidated ==
    /\ \A j \in 1 .. Len(csv) :
          \/ Accepted(csv[j].center_x, csv[j].center_y)
          \/ (csv[j].center_x.nan /\ csv[j].center_y.nan)
    /\ \A f \in DOMAIN df :
          \/ Accepted(df[f][1], df[f][2])
          \/ (df[f][1].nan /\ df[f][2].nan)

\* C3: whatever the order in which the workers complete, the rows of the
\* written table are in strictly ascending frame_number order.
C3_AscendingRows ==
    \A j \in 1 .. Len(csv) - 1 : csv[j].frame_number < csv[j + 1].frame_number

\* a finished run of the chunk-task scheduler that wrote three rows or more
C3_Witness ==
    pc = "done" /\ variant = "partial" /\ Len(csv) >= 3 /\ Len(work) >= 2

\* the frames that have a row in the written table
RowFrames == {csv[j].frame_number : j \in 1 .. Len(csv)}

\* what the validated pipeline makes of frame f
ValidatedCentre(f) == Validated(ProcessSingleImage(frames[f]))

DropsNaNRows == variant \in {"chunked", "apply_async"}

IndexColumn == [j \in 1 .. Len(csv) |-> csv[j].data_index]

C6_ClosedUnderMirroring ==
    phase = "masked" =>
        \A p \in symMask :
            LET q == MirrorIndex(p, rows, cols, cand[2], cand[1])
            IN  q >= 0 => q \in symMask

\* C7: build_symmetric_mask_fast sets a pixel p if and only if p is valid,
\* its rounded mirror q is in bounds and q is valid (a self-mirror pixel iff
\* it is valid, a pixel with an out-of-bounds mirror never).
C7_SetIffPairValid ==
    phase = "masked" =>
        \A p \in 0 .. NPix(rows, cols) - 1 :
            LET q == MirrorIndex(p, rows, cols, cand[2], cand[1])
            IN  (p \in symMask) <=> (gmask[p] /\ q >= 0 /\ gmask[q])

\* ------------------------------------------------------------------ claim C8
\* the (wedge, bin) cells of the first half of the wedges that are usable in
\* the wedge and in its opposite
ComparableCells ==
    {wb \in (0 .. (NWedges \div 2) - 1) \X (0 .. NRadBins - 1) :
        /\ ~profiles[wb[1]][wb[2]].nan
        /\ ~profiles[wb[1] + (NWedges \div 2)][wb[2]].nan}

SquaredDiff ==
    [wb \in ComparableCells |->
        LET d == profiles[wb[1]][wb[2]].med2
                 - profiles[wb[1] + (NWedges \div 2)][wb[2]].med2
        IN  d * d]

\* C8: center_asymmetry_metric is non-negative, is +infinity exactly when
\* no pair of opposite wedges has a bin usable in both profiles, and is
\* otherwise the sum of the squared differences over the comparable bins
\* divided by their number.
C8_MetricValue ==
    phase = "metric" =>
        /\ metric.inf <=> ComparableCells = {}
        /\ ~metric.inf =>
              /\ metric.num >= 0
              /\ metric.den = Cardinality(ComparableCells)
              /\ metric.num = SumOver(ComparableCells, SquaredDiff)

\* a finite non-zero metric over two comparable bins or more
C8_Witness ==
    phase = "metric" /\ ~metric.inf /\ metric.num > 0 /\ metric.den >= 2

\* the +infinity case: a candidate with no comparable bin
C8_WitnessInf ==
    phase = "metric" /\ metric.inf /\ symMask # {}

\* ============================================================= claims C9, C10
\* the frame has no comparable bin (its metric is +infinity) or the
\* optimizer's output for it is not finite
Undetermined(fr) ==
    \/ fr.initial_metric.inf
    \/ ~(IsFinite(ProcessSingleImage(fr)[1]) /\ IsFinite(ProcessSingleImage(fr)[2]))

\* C9: a frame whose metric has no comparable bin, or whose optimizer output
\* is not finite, carries the NaN pair in its record and never a finite
\* centre.
C9_UndeterminedIsNaN ==
    /\ \A j \in 1 .. Len(csv) :
          (csv[j].frame_number \in DOMAIN frames /\ Undetermined(frames[csv[j].frame_number]))
          => (csv[j].center_x.nan /\ csv[j].center_y.nan)
    /\ \A f \in DOMAIN df :
          (f \in DOMAIN frames /\ Undetermined(frames[f]))
          => (df[f][1].nan /\ df[f][2].nan)

\* a missing index array under the strict policy, a mask of another shape or
\* an empty frame range
ConfigError ==
    \/ (variant # "partial" /\ ~has_index)
    \/ ~mask_ok
    \/ n_images = 0

\* C10: a configuration error makes the scheduler raise before any work item
\* is dispatched; no frame is processed and no output is written.
C10_FailFast ==
    ConfigError =>
        /\ work = <<>>
        /\ ~csv_written
        /\ pc \in {"start", "raised"}

\* ================================================================ claim C11
\* the computation of frame f raises inside a worker
FaultyFrame(f) == f \notin DOMAIN frames \/ ~frames[f].readable \/ ~mask_ok

\* C11: when the computation of a frame raises inside a worker, the run ends
\* with the error propagated or the frame gets a row of NaN coordinates; a run
\* never completes with a failed work item unreported or its frame absent.
C11_FaultNotSilent ==
    pc = "done" =>
        /\ \A i \in 1 .. Len(work) : status[i] # "failed"
        /\ \A f \in Dispatched :
              FaultyFrame(f) =>
                  \E j \in 1 .. Len(csv) :
                      /\ csv[j].frame_number = f
                      /\ csv[j].center_x.nan /\ csv[j].center_y.nan

\* a run ended by the error of one work item after another had succeeded
C11_Witness ==
    /\ pc = "raised"
    /\ \E i \in 1 .. Len(work) : status[i] = "failed"
    /\ \E i \in 1 .. Len(work) : status[i] = "ok"
    /\ ~csv_written

\* ================================================================ claim C12
\* the frame numbers of a list of records are pairwise different
DistinctFrames(recs) ==
    \A i, j \in 1 .. Len(recs) : i # j => recs[i][1] # recs[j][1]

IsPrefix(s, t) == Len(s) <= Len(t) /\ SubSeq(t, 1, Len(s)) = s

\* the work items a step folds into the DataFrame
FoldedBy(f) ==
    {i \in 1 .. Len(work) :
        /\ \E j \in 1 .. Len(work[i]) : work[i][j] = f
        /\ IF variant = "chunked" THEN pc = "running" /\ pc' = "done"
           ELSE i \notin folded /\ i \in folded'}

\* C12: each processed frame gets exactly one record: a step of the
\* aggregation writes the table row of a frame at most once, leaves the rows
\* already written as they are, and no two rows of the written table share a
\* frame_number.
C12_OneRecordPerFrame ==
    [][/\ DistinctFrames(results')
       /\ \A i, j \in 1 .. Len(csv') :
             i # j => csv'[i].frame_number # csv'[j].frame_number
       /\ IsPrefix(csv, csv')
       /\ csv_written => csv_written'
       /\ (df # <<>> /\ df' # df) =>
             \A f \in DOMAIN df' :
                 (f \in DOMAIN df /\ df'[f] # df[f]) => Cardinality(FoldedBy(f)) = 1
      ]_vars

\* process_images has appended the rows of two chunk ranges or more
C12_Witness ==
    /\ pc = "done"
    /\ variant = "with_index"
    /\ chunk_size = 1
    /\ Len(csv) >= 2

\* ================================================================ claim C13
\* the step writes the output table
WritesTable == csv' # csv \/ (csv_written' /\ ~csv_written)

\* the record is in the table the step writes
InWrittenTable(rec) ==
    CASE variant \in {"chunked", "apply_async", "unordered"} ->
            df'[rec[1]] = <<rec[2], rec[3]>>
      [] variant = "partial" ->
            \E j \in 1 .. Len(csv') : csv'[j] = Row(rec[1], rec[2], rec[3], rec[4])
      [] OTHER -> TRUE

\* C13: the output table is written only after every dispatched work item has
\* reported: at the step that writes it no dispatched work item is pending and
\* every record a worker returned is in the table.
C13_WrittenAfterAllReported ==
    [][WritesTable =>
          /\ \A i \in 1 .. Len(work) : status[i] = "ok"
          /\ variant \in {"apply_async", "unordered"} => folded' = 1 .. Len(work)
          /\ \A i \in 1 .. Len(work) : \A j \in 1 .. Len(out[i]) :
                IF variant = "with_index"
                THEN \E m \in 1 .. Len(csv') :
                         /\ csv'[m].frame_number = work[i][1]
                         /\ csv'[m].center_x = out[i][j][1]
                         /\ csv'[m].center_y = out[i][j][2]
                ELSE InWrittenTable(out[i][j])
      ]_vars

\* the callback-driven scheduler has written its table after three tasks
C13_Witness ==
    /\ pc = "done"
    /\ variant = "apply_async"
    /\ csv_written
    /\ Len(work) >= 3

\* ================================================================ claim C14
\* the step is a worker finishing work item i
WorkerFinishes(i) ==
    /\ i \in 1 .. Len(status)
    /\ i \in 1 .. Len(status')
    /\ status[i] = "pending"
    /\ status'[i] # "pending"

\* C14: only the aggregation step of the controlling process modifies the
\* result table: a worker finishing a work item leaves the DataFrame, the
\* collected records and the CSV as they are, and its outcome is the record it
\* returns.
C14_WorkersLeaveTable ==
    [][\A i \in 1 .. Len(work) :
          WorkerFinishes(i) =>
              /\ df' = df
              /\ results' = results
              /\ csv' = csv
              /\ csv_written' = csv_written
              /\ progress' = progress
              /\ status'[i] = "ok" => out'[i] = WorkerResult(work[i])
      ]_vars

\* a worker of the callback-driven scheduler has returned an accepted centre
\* that the callback has yet to put into the DataFrame
C14_Witness ==
    /\ variant = "apply_async"
    /\ pc = "running"
    /\ \E i \in 1 .. Len(work) :
          /\ status[i] = "ok"
          /\ i \notin folded
          /\ Accepted(out[i][1][2], out[i][1][3])
          /\ df[work[i][1]] = NaNPair

\* ================================================================ claim C15
\* the centre the scheduler records for frame f, from the frame alone
CentreOf(f) ==
    CASE variant = "unordered" ->
            <<ProcessOneFrame(frames, f)[2], ProcessOneFrame(frames, f)[3]>>
      [] variant = "with_index" -> ProcessSingleImage(frames[f])
      [] OTHER -> Validated(ProcessSingleImage(frames[f]))

\* the table of a run that processes the sampled frames one after the other
SequentialTable ==
    LET sampled == SampledSet(n_images, frame_interval)
        centres == [f \in 0 .. n_images - 1 |->
                       IF f \in sampled THEN CentreOf(f) ELSE NaNPair]
        kept == IF DropsNaNRows
                THEN {f \in sampled : ~centres[f][1].nan /\ ~centres[f][2].nan}
                ELSE sampled
    IN  RowsFrom(0, centres, DataIndexAll, kept)

\* C15: the record of a frame depends only on the frame, the mask and the
\* configuration: whatever the interleaving and completion order of the work
\* items, the table a completed run has written is the table of the
\* sequential run.
C15_SameTable ==
    (pc = "done" /\ n_images >= 1) => csv = SequentialTable

\* a completed chunked run of two work items or more with two rows or more
C15_Witness ==
    /\ pc = "done"
    /\ variant = "chunked"
    /\ Len(work) >= 2
    /\ Len(csv) >= 2

\* ================================================================ claim C16
\* C16: each worker opens the image dataset exactly once, at worker
\* initialization, and processing a frame never opens it again.
C16_OneOpenPerWorker ==
    work # <<>> =>
        /\ opens.init = 1
        /\ \A i \in 1 .. Len(work) : opens.task[i] = 0

\* ========================================================== claims C17, C18
\* C17: when the metric at the initial guess is below skip_tol,
\* find_diffraction_center returns the initial guess and never calls the
\* optimizer; otherwise, +infinity included, it runs one Nelder-Mead
\* minimization seeded at the initial guess.
C17_SkipOrRefine ==
    LET m == objective[x0]
        below == ~m.inf /\ m.num < 4 * SkipTol * m.den
    IN  /\ (rpc \in {"evaluated", "refine", "returned"} /\ below) =>
               /\ minimize_calls = 0
               /\ iterations = 0
               /\ evaluated = {}
               /\ rpc = "returned" => refined_center = x0
        /\ (rpc \in {"refine", "returned"} /\ ~below) =>
               /\ minimize_calls = 1
               /\ x0 \in evaluated

\* a call skipped at its initial guess, on a frame with candidate points that
\* have no comparable bin
C17_Witness ==
    /\ rpc = "returned"
    /\ minimize_calls = 0
    /\ refined_center = x0
    /\ \E p \in GridPoints : objective[p].inf

\* a call that ran the optimizer on an initial metric of +infinity
C17_WitnessInf ==
    /\ rpc = "returned"
    /\ objective[x0].inf
    /\ minimize_calls = 1

\* C18: find_diffraction_center always returns: the simplex loop stops on
\* convergence or after at most 300 iterations, and what is returned is the
\* best point the loop has evaluated.
C18_Terminates ==
    /\ [](iterations <= MaxIter)
    /\ []((rpc = "returned" /\ minimize_calls = 1) =>
             /\ refined_center \in evaluated
             /\ \A p \in evaluated : ~Less(objective[p], objective[refined_center]))
    /\ <>(rpc = "returned")

\* a call returned by iteration exhaustion
C18_Witness ==
    /\ rpc = "returned"
    /\ iterations = MaxIter
    /\ Cardinality(evaluated) >= 2

\* ========================================================== claims C19, C20
\* the valid pixels of the frame and their total intensity
ValidPixels == {p \in 0 .. NPix(rows, cols) - 1 : gmask[p]}
TotalIntensity == SumOver(ValidPixels, image)

\* C19: for every frame and mask whose valid pixels have zero total
\* intensity, center_of_mass_initial_guess returns exactly the geometric
\* centre (cols / 2, rows / 2).
C19_GeometricCentre ==
    (phase = "guessed" /\ ValidPixels \cap nanPix = {} /\ TotalIntensity = 0) =>
        /\ ~com.nan
        /\ com.d # 0
        /\ 2 * com.xn = cols * com.d
        /\ 2 * com.yn = rows * com.d

\* a guess for a frame whose valid intensities are not zero and cancel
C19_Witness ==
    /\ phase = "guessed"
    /\ TotalIntensity = 0
    /\ \E p \in ValidPixels : image[p] # 0
    /\ cols >= 2

\* 0 <= n / d < bound for the rational n / d
WithinBounds(n, d, bound) ==
    IF d > 0 THEN 0 <= n /\ n < bound * d
    ELSE n <= 0 /\ n > bound * d

\* C20: for every frame and mask whose valid pixels have nonzero total
\* intensity, whatever the signs of the intensities, the output of
\* center_of_mass_initial_guess lies within the frame: 0 <= cx < cols and
\* 0 <= cy < rows.
C20_GuessWithinFrame ==
    (phase = "guessed" /\ ValidPixels \cap nanPix = {} /\ TotalIntensity # 0) =>
        /\ ~com.nan
        /\ com.d # 0
        /\ WithinBounds(com.xn, com.d, cols)
        /\ WithinBounds(com.yn, com.d, rows)

\* C20 (amended): for every frame and mask whose valid pixels have
\* non-negative intensities and a positive total, the output of
\* center_of_mass_initial_guess lies within the frame: 0 <= cx < cols and
\* 0 <= cy < rows; intensities of both signs can put it outside.
C20_GuessWithinFrameNonNegative ==
    (/\ phase = "guessed"
     /\ ValidPixels \cap nanPix = {}
     /\ \A p \in ValidPixels : image[p] >= 0
     /\ TotalIntensity > 0) =>
        /\ ~com.nan
        /\ com.d > 0
        /\ WithinBounds(com.xn, com.d, cols)
        /\ WithinBounds(com.yn, com.d, rows)

\* a guess between two lit pixels of different weight in the last column and
\* row of the frame
C20_Witness ==
    /\ phase = "guessed"
    /\ \A p \in ValidPixels : image[p] >= 0
    /\ TotalIntensity > 0
    /\ cols >= 2
    /\ com.xn % com.d # 0
    /\ \E p \in ValidPixels : image[p] > 0 /\ ColOf(p, cols) = cols - 1

\* ================================================================= claim C21
\* squared distance of pixel p from the centre ctr, in 1/Den pixels
Dist2At(p, c, ctr) ==
    LET dx == NewDx(p, c, ctr, ctr)
        dy == NewDy(p, c, ctr, ctr)
    IN  dx * dx + dy * dy

\* centres about which np.round(2*c - x) is exact: 2*cx and 2*cy are integers
ExactCentres(r, c) ==
    {ctr \in Centres(r, c) : (2 * ctr[1]) % Den = 0 /\ (2 * ctr[2]) % Den = 0}

\* frames that are a function of the distance from ctr: a lit ring, a lit disc
Ring(r, c, ctr, t, v) ==
    [p \in 0 .. NPix(r, c) - 1 |-> IF Dist2At(p, c, ctr) = t THEN v ELSE 0]
Disc(r, c, ctr, t, v) ==
    [p \in 0 .. NPix(r, c) - 1 |-> IF Dist2At(p, c, ctr) <= t THEN v ELSE 0]
RadialFrames(r, c, ctr) ==
    LET ds == {Dist2At(p, c, ctr) : p \in 0 .. NPix(r, c) - 1}
    IN  {Ring(r, c, ctr, t, v) : t \in ds, v \in 1 .. MaxVal}
            \cup {Disc(r, c, ctr, t, v) : t \in ds, v \in 1 .. MaxVal}

\* a frame of RadSize rows and one column more, symmetric about an exact
\* centre, under an all-valid mask; at most one pixel of it reads NaN
InitRadial ==
    /\ IdleLoad
    /\ IdleSched
    /\ IdleGuess
    /\ IdleRefine
    /\ rows = RadSize
    /\ cols = RadSize + 1
    /\ gmask = AllValid(rows, cols)
    /\ cand \in ExactCentres(rows, cols)
    /\ image \in RadialFrames(rows, cols, cand)
    /\ nanPix \in {{}} \cup {{i} : i \in 0 .. NPix(rows, cols) - 1}
    /\ phase = "input"
    /\ symMask = {}
    /\ profiles = NoProfiles
    /\ metric = NoMetric

\* center_asymmetry_metric at the centre of symmetry
NextRadial == CallMetric

SpecRadial == InitRadial /\ [][NextRadial]_vars

\* the intensity of the frame depends only on the distance from the candidate
RadiallySymmetric ==
    /\ nanPix = {}
    /\ \A p, q \in 0 .. NPix(rows, cols) - 1 :
          Dist2At(p, cols, cand) = Dist2At(q, cols, cand) => image[p] = image[q]

\* C21: for a frame whose intensity depends only on the distance from a
\* point and an all-valid mask, center_asymmetry_metric evaluated at that
\* point is zero.
C21_ZeroAtSymmetryCentre ==
    (phase = "metric" /\ gmask = AllValid(rows, cols) /\ RadiallySymmetric) =>
        (~metric.inf /\ metric.num = 0)

\* the weaker reading that lets the metric be +infinity when no bin is
\* comparable; it fails too, on a finite non-zero metric
C21_ZeroOrInf ==
    (phase = "metric" /\ gmask = AllValid(rows, cols) /\ RadiallySymmetric) =>
        (metric.inf \/ metric.num = 0)

\* ================================================================= claim C22
\* the centroid guess lies on the 1/Den grid of candidate centres
OnGrid(g) == ~g.nan /\ (Den * g.xn) % g.d = 0 /\ (Den * g.yn) % g.d = 0

\* a centre as a pair of floats, in 1/Den pixels, and back
PointOf(ctr) == <<Fin(ctr[1]), Fin(ctr[2])>>
CentreOfPoint(pt) == <<pt[1].v, pt[2].v>>

\* initial_center as the pair the refiner is seeded with
GuessPoint(g) == PointOf(<<(Den * g.xn) \div g.d, (Den * g.yn) \div g.d>>)

\* the candidate centres the simplex may evaluate: the initial guess, the
\* centre of symmetry of the frame and the point halfway between pixel 0 and it
SearchPoints(pt, ctr) == {pt, PointOf(ctr), PointOf(<<ctr[1] \div 2, ctr[2] \div 2>>)}

\* center_asymmetry_metric as minimize calls it: base_center is initial_center
ObjectiveOf(pt, img, nans, gm, r, c, ctr) ==
    [q \in SearchPoints(pt, ctr) |->
        CenterAsymmetryMetric(CentreOfPoint(q), img, nans, gm, r, c,
                              CentreOfPoint(pt), NWedges, NRadBins)]

\* a frame built symmetric about cand, whose centroid is on the grid
InitFind ==
    /\ IdleLoad
    /\ IdleSched
    /\ rows = RadSize
    /\ cols = RadSize
    /\ gmask = AllValid(rows, cols)
    /\ cand \in ExactCentres(rows, cols)
    /\ image \in RadialFrames(rows, cols, cand)
    /\ OnGrid(CenterOfMass(image, {}, gmask, rows, cols))
    /\ nanPix = {}
    /\ phase = "input"
    /\ symMask = {}
    /\ profiles = NoProfiles
    /\ metric = NoMetric
    /\ IdleGuess
    /\ IdleRefine

\* initial_center = center_of_mass_initial_guess(image, mask), dx_base and
\* dy_base taken from it
GuessInitialCenter ==
    /\ phase = "input"
    /\ rpc = "idle"
    /\ LET g == CenterOfMass(image, nanPix, gmask, rows, cols)
       IN  /\ com' = g
           /\ x0' = GuessPoint(g)
           /\ objective' = ObjectiveOf(GuessPoint(g), image, nanPix, gmask, rows, cols, cand)
    /\ phase' = "guessed"
    /\ rpc' = "call"
    /\ UNCHANGED <<rows, cols, gmask, cand, symMask, image, nanPix, profiles, metric>>
    /\ UNCHANGED <<init_metric, minimize_calls, iterations, best, evaluated, refined_center>>
    /\ UNCHANGED <<schedVars, maskVars>>

NextFind ==
    \/ GuessInitialCenter
    \/ EvaluateInitial
    \/ SkipOptimization
    \/ StartMinimize
    \/ \E t \in DOMAIN objective : Iterate(t)
    \/ ReturnRefined

SpecFind == InitFind /\ [][NextFind]_vars

\* the Euclidean distance between two points is at most xatol = 1 / XatolDen px
WithinTolerance(pt, ctr) ==
    LET dx == pt[1].v - ctr[1]
        dy == pt[2].v - ctr[2]
    IN  /\ pt[1].fin
        /\ pt[2].fin
        /\ XatolDen * XatolDen * (dx * dx + dy * dy) <= Den * Den

\* C22: starting from the centroid guess on a frame radially symmetric about
\* (cx0, cy0), find_diffraction_center returns a point within the configured
\* tolerance (0.1 px) of (cx0, cy0).
C22_ReturnsSymmetryCentre ==
    rpc = "returned" => WithinTolerance(refined_center, cand)

\* ================================================================= claim C23
\* ----------------------------------------------- mask loading of the front ends
\* number of elements of an array of the given shape
RECURSIVE Size(_)
Size(shape) == IF shape = <<>> THEN 1 ELSE Head(shape) * Size(Tail(shape))

\* the arrays of booleans of a shape, in row-major order, that mark at most
\* one element invalid
Arrays(shape) ==
    {[shape |-> shape, data |-> [k \in 1 .. Size(shape) |-> k # bad]] :
        bad \in 0 .. Size(shape)}

\* a[0]: the first element along the first axis
First(a) ==
    [shape |-> Tail(a.shape),
     data |-> [k \in 1 .. Size(Tail(a.shape)) |-> a.data[k]]]

\* np.ones_like(a, dtype=bool)
OnesLike(a) == [shape |-> a.shape, data |-> [k \in 1 .. Size(a.shape) |-> TRUE]]

\* the two branches: f_mask['/mask'][:].astype(bool), or
\* sample = f_mask['/mask'][0]; np.ones_like(sample, dtype=bool)
LoadedMask(use, ds) == IF use THEN ds ELSE OnesLike(First(ds))

\* the layouts of '/mask': one mask of the frame's shape, or a stack of them
MaskLayouts(r, c) == {<<r, c>>} \cup {<<n, r, c>> : n \in 1 .. MaxStack}

\* a detector of rows x cols pixels, a mask file written for it, the option
InitLoad ==
    /\ IdleSched
    /\ IdleGuess
    /\ IdleRefine
    /\ rows \in 1 .. Rows
    /\ cols \in 1 .. Cols
    /\ gmask = AllValid(rows, cols)
    /\ cand = <<0, 0>>
    /\ phase = "idle"
    /\ symMask = {}
    /\ image = Dark(rows, cols)
    /\ nanPix = {}
    /\ profiles = NoProfiles
    /\ metric = NoMetric
    /\ use_mask \in BOOLEAN
    /\ \E shape \in MaskLayouts(rows, cols) : mask_dataset \in Arrays(shape)
    /\ loaded_mask = NoArray
    /\ load_pc = "start"

\* with h5py.File(mask_file, 'r') as f_mask: ... of the front end
LoadMask ==
    /\ load_pc = "start"
    /\ loaded_mask' = LoadedMask(use_mask, mask_dataset)
    /\ load_pc' = "loaded"
    /\ UNCHANGED <<use_mask, mask_dataset, pureVars, schedVars>>

NextLoad == LoadMask

SpecLoad == InitLoad /\ [][NextLoad]_vars

\* C23: when the use-no-mask option is chosen, the mask handed to the
\* scheduler is all-valid and has exactly the shape (rows x cols) of a frame,
\* the same shape the mask has when the option is not chosen.
C23_NoMaskHasFrameShape ==
    (load_pc = "loaded" /\ ~use_mask) =>
        /\ \A k \in DOMAIN loaded_mask.data : loaded_mask.data[k]
        /\ loaded_mask.shape = <<rows, cols>>
        /\ loaded_mask.shape = LoadedMask(TRUE, mask_dataset).shape

C24_WitnessCallback ==
    /\ pc = "running"
    /\ variant = "apply_async"
    /\ progress >= 1
    /\ progress < Len(work)

\* ================================================================= claim C25
\* the wedges, and the radial bin, that compute_wedge_radial_profiles gives
\* pixel p for the candidate centre of the harness
WedgesOf(p) ==
    {w \in 0 .. NWedges - 1 :
        InWedge(w, NewDx(p, cols, cand, cand), NewDy(p, cols, cand, cand))}
BinOf(p) ==
    BinIndex(NewDx(p, cols, cand, cand), NewDy(p, cols, cand, cand), rows, cols, NRadBins)

\* the symmetric-masked pixels whose radius falls in one of the radial bins
InRadialRange == {p \in symMask : BinOf(p) \in 0 .. NRadBins - 1}

\* C25: for every candidate centre, every symmetric-masked pixel whose radius
\* lies within the radial range is assigned to exactly one of the n_wedges
\* wedges and exactly one radial bin, whatever its angle in the full circle.
C25_ExactlyOneWedge ==
    phase = "metric" =>
        \A p \in InRadialRange : Cardinality(WedgesOf(p)) = 1

\* no pixel is counted in two wedges
C25_AtMostOneWedge ==
    phase = "metric" =>
        \A p \in InRadialRange : Cardinality(WedgesOf(p)) <= 1

\* ================================================================= claim C26
\* the candidate centre of the harness is one about which the mirror map is
\* exact
ExactCandidate == cand \in ExactCentres(rows, cols)

\* the distinct mirror pairs <<p, q>> of the symmetric mask
MirrorPairs ==
    {pq \in symMask \X symMask :
        /\ pq[1] # pq[2]
        /\ MirrorIndex(pq[1], rows, cols, cand[2], cand[1]) = pq[2]}

\* C26: for an even n_wedges and a candidate centre about which the mirror
\* map is exact, two mirror-image pixels p and q of the symmetric mask are
\* such that p falls in wedge i and radial bin b if and only if q falls in
\* the opposite wedge (i + n_wedges/2) mod n_wedges and the same bin b.
C26_MirrorPairsOpposite ==
    (phase = "metric" /\ ExactCandidate) =>
        \A pq \in MirrorPairs :
            \A i \in 0 .. NWedges - 1 :
                \A b \in 0 .. NRadBins - 1 :
                    (i \in WedgesOf(pq[1]) /\ BinOf(pq[1]) = b)
                    <=> /\ ((i + NWedges \div 2) % NWedges) \in WedgesOf(pq[2])
                        /\ BinOf(pq[2]) = b

\* the same, away from the row of the candidate centre
C26_MirrorPairsOppositeOffAxis ==
    (phase = "metric" /\ ExactCandidate) =>
        \A pq \in MirrorPairs :
            NewDy(pq[1], cols, cand, cand) # 0 =>
                \A i \in 0 .. NWedges - 1 :
                    \A b \in 0 .. NRadBins - 1 :
                        (i \in WedgesOf(pq[1]) /\ BinOf(pq[1]) = b)
                        <=> /\ ((i + NWedges \div 2) % NWedges) \in WedgesOf(pq[2])
                            /\ BinOf(pq[2]) = b

\* ================================================================= claim C27
\* the members of the (wedge, bin) cell: the symmetric-masked pixels of the
\* wedge whose bin index is b
CellMembers(w, b) == {p \in symMask : w \in WedgesOf(p) /\ BinOf(p) = b}

\* the j-th smallest intensity among the pixels M (j in 1 .. |M|)
OrderStat(M, j) ==
    CHOOSE v \in {image[p] : p \in M} :
        /\ Cardinality({p \in M : image[p] < v}) < j
        /\ j <= Cardinality({p \in M : image[p] <= v})

\* twice the median of the intensities of the pixels M
Median2(M) ==
    LET n == Cardinality(M)
    IN  IF n % 2 = 1 THEN 2 * OrderStat(M, (n + 1) \div 2)
        ELSE OrderStat(M, n \div 2) + OrderStat(M, (n \div 2) + 1)

\* C27: for every (wedge, radial bin) cell, compute_bin_medians returns the
\* median of the member intensities (the mean of the two middle values when
\* the count is even), NaN if the cell has no members, and NaN if at least
\* one member is NaN; pixels whose bin index falls outside 0..n_bins-1
\* contribute to no cell.
C27_CellMedians ==
    phase = "metric" =>
        \A w \in 0 .. NWedges - 1 :
            \A b \in 0 .. NRadBins - 1 :
                LET M == CellMembers(w, b)
                IN  IF M = {} \/ M \cap nanPix # {}
                    THEN profiles[w][b].nan
                    ELSE /\ ~profiles[w][b].nan
                         /\ profiles[w][b].med2 = Median2(M)

\* a cell of two members with different intensities, hence a median between
\* them, next to a cell that a NaN member invalidates, while a NaN pixel
\* outside the radial range would invalidate nothing
C27_Witness ==
    /\ phase = "metric"
    /\ \E w \in 0 .. NWedges - 1 :
          \E b \in 0 .. NRadBins - 1 :
              /\ Cardinality(CellMembers(w, b)) = 2
              /\ ~profiles[w][b].nan
              /\ profiles[w][b].med2 % 2 = 1
    /\ \E w \in 0 .. NWedges - 1 :
          \E b \in 0 .. NRadBins - 1 :
              /\ Cardinality(CellMembers(w, b)) = 2
              /\ CellMembers(w, b) \cap nanPix # {}
              /\ profiles[w][b].nan

\* a NaN pixel of the symmetric mask beyond the last radial edge, and a cell
\* with a median all the same
C27_WitnessOutOfRange ==
    /\ phase = "metric"
    /\ \E p \in symMask \cap nanPix : BinOf(p) \notin 0 .. NRadBins - 1
    /\ \E w \in 0 .. NWedges - 1 :
          \E b \in 0 .. NRadBins - 1 : ~profiles[w][b].nan

\* ================================================================= claim C28
\* process_images_partial: chunks = [frames_to_process[i:i+chunk_size] ...]
PartialChunks(n, k, size) == ChunksOf(FramesToProcess(n, k), size)

\* process_images: the chunk_frame_indices of the ranges
\* range(start_idx, min(start_idx + chunk_size, n_images)) from start s on,
\* the empty ones skipped
RECURSIVE RangeChunks(_, _, _, _)
RangeChunks(s, n, k, size) ==
    LET ns == NextStart(s, n, k, size)
    IN  IF ns >= n THEN <<>>
        ELSE <<ChunkFrameIndices(ns, Min(ns + size, n), n, k)>>
                 \o RangeChunks(ns + size, n, k, size)

\* the chunks partition the sampled set into pieces of at most size frames
PartitionsSampled(chunks, n, k, size) ==
    LET all == Flatten(chunks)
    IN  /\ \A f \in SampledSet(n, k) :
              Cardinality({j \in 1 .. Len(all) : all[j] = f}) = 1
        /\ \A j \in 1 .. Len(all) : all[j] \in SampledSet(n, k)
        /\ \A i \in 1 .. Len(chunks) : Len(chunks[i]) \in 1 .. size

\* C28: under either chunking strategy (fixed-size chunks of the
\* sampled-frame list in process_images_partial, fixed-size chunks of the raw
\* frame range in process_images) the work items partition the sampled set
\* for every n >= 1, frame_interval and chunk_size >= 1: every sampled frame
\* belongs to exactly one work item, no unsampled frame belongs to any, and
\* no chunk exceeds chunk_size.
C28_ChunksPartition ==
    LET by_list == PartialChunks(n_images, frame_interval, chunk_size)
        by_range == RangeChunks(0, n_images, frame_interval, chunk_size)
    IN  /\ (pc = "start" /\ n_images >= 1) =>
              /\ PartitionsSampled(by_list, n_images, frame_interval, chunk_size)
              /\ PartitionsSampled(by_range, n_images, frame_interval, chunk_size)
              \* ten frames, every fourth, in chunks of three
              /\ PartialChunks(10, 4, 3) = <<<<0, 4, 8>>, <<9>>>>
              /\ RangeChunks(0, 10, 4, 3) = <<<<0>>, <<4>>, <<8>>, <<9>>>>
        /\ (variant = "partial" /\ pc \in {"running", "done"} /\ n_images >= 1) =>
              work = by_list
        /\ (variant = "with_index" /\ pc \in {"running", "done"}) =>
              /\ IsPrefix(DispatchedSeq, Flatten(by_range))
              /\ pc = "done" => DispatchedSeq = Flatten(by_range)

\* process_images_partial has dispatched a full chunk and a shorter last one
C28_Witness ==
    /\ variant = "partial"
    /\ pc = "running"
    /\ Len(work) = 2
    /\ Len(work[1]) = chunk_size
    /\ chunk_size >= 2
    /\ Len(work[2]) < chunk_size

\* process_images has finished after skipping a range without sampled frames
C28_WitnessSkippedRange ==
    /\ variant = "with_index"
    /\ pc = "done"
    /\ Len(RangeChunks(0, n_images, frame_interval, chunk_size))
           < (n_images + chunk_size - 1) \div chunk_size

C29_WitnessOutOfOrder ==
    /\ variant = "partial"
    /\ pc = "running"
    /\ Len(work) >= 2
    /\ status[1] = "pending"
    /\ status[2] = "ok"
    /\ Len(out[2]) >= 1

\* the fallback: a table written without an index array
C29_WitnessFallback ==
    /\ variant = "partial"
    /\ pc = "done"
    /\ ~has_index
    /\ Len(csv) >= 2

\* ================================================================= claim C30
\* ------------------------------------ the worker functions on the same frame
\* a frame whose centroid guess is off the ROI and whose search ends inside it
DriftIn == Frame(POut, Ratio(4 * SkipTol, 1), PIn)
WorkerFrames == FrameKinds \cup {DriftIn}

\* the schedulers whose worker functions the specification holds equivalent
WorkerVariants == {"chunked", "apply_async", "unordered", "partial"}

\* what the worker function of variant v makes of frame fn: the centre it
\* returns, or the exception it dies of
WorkerOutcome(v, fs, ok, fn) ==
    IF Raises(fs, ok, fn) THEN <<"raised">>
    ELSE CASE v \in {"chunked", "apply_async"} ->
                 LET r == ComputeCenterForFrame(fs, fn) IN <<r[2], r[3]>>
           [] v = "unordered" ->
                 LET r == ProcessOneFrame(fs, fn) IN <<r[2], r[3]>>
           [] OTHER ->
                 LET r == ComputeCentersForChunk(fs, <<fn>>, <<fn>>)[1] IN <<r[3], r[4]>>

\* one dataset of one frame, one mask, one configuration
InitWorkers ==
    /\ IdlePure
    /\ IdleLoad
    /\ variant = "none"
    /\ n_images = 1
    /\ frame_interval = 1
    /\ chunk_size = 1
    /\ has_index = TRUE
    /\ mask_ok \in BOOLEAN
    /\ frames \in [0 .. n_images - 1 -> WorkerFrames]
    /\ pc = "workers"
    /\ work = <<>>
    /\ status = <<>>
    /\ out = <<>>
    /\ gpos = 0
    /\ folded = {}
    /\ df = <<>>
    /\ results = <<>>
    /\ csv = <<>>
    /\ csv_written = FALSE
    /\ progress = 0
    /\ opens = NoOpens

\* the worker function of variant v is run on every frame of the dataset; out
\* keeps its outcomes under the variant's name
RunWorkerFunction(v) ==
    /\ pc = "workers"
    /\ v \notin DOMAIN out
    /\ out' = (v :> [f \in DOMAIN frames |-> WorkerOutcome(v, frames, mask_ok, f)]) @@ out
    /\ UNCHANGED <<pureVars, maskVars, variant, n_images, frame_interval, chunk_size, has_index,
                   mask_ok, frames, pc, work, status, gpos, folded, df, results, csv,
                   csv_written, progress, opens>>

NextWorkers == \E v \in WorkerVariants : RunWorkerFunction(v)

SpecWorkers == InitWorkers /\ [][NextWorkers]_vars

\* C30: for the same dataset, mask and configuration the scheduler variants
\* (chunked imap, callback-driven apply_async, imap_unordered with
\* process_one_frame, chunk-task process_images_partial) yield the same
\* per-frame outcome: the same frame receives the NaN sentinel or the same
\* accepted centre in each variant.
C30_SameOutcome ==
    pc = "workers" =>
        \A v, w \in DOMAIN out : \A f \in DOMAIN frames : out[v][f] = out[w][f]

\* the three variants that share process_single_image agree with one another
C30_SameOutcomeSharedPipeline ==
    pc = "workers" =>
        \A v, w \in DOMAIN out \ {"unordered"} :
            \A f \in DOMAIN frames : out[v][f] = out[w][f]


====
